---- MODULE Spec2Model ----
(***************************************************************************)
(* Flight price monitor: the server handlers over the four tables          *)
(* (users, flight_searches, price_records, alerts).                        *)
(*                                                                         *)
(* Conventions                                                             *)
(*   - a timestamp is an integer number of clock units; `now` is the       *)
(*     clock both `new Date()` and the store's defaultNow() read;          *)
(*   - a nullable column or field holds a set with at most one element:    *)
(*     {} is null, {v} is the value v;                                     *)
(*   - a handler input is a record whose DOMAIN is the set of fields the   *)
(*     caller supplied: a field outside the DOMAIN is `undefined`;         *)
(*   - a table is a function from the serial id to the row;                *)
(*   - `last` is the reply of the most recent call: the operation, its     *)
(*     input, the outcome ("ok" or the kind of the error thrown) and the   *)
(*     value returned;                                                     *)
(*   - `calls` holds the handler invocations that have read the store and  *)
(*     not yet written to it, `app` the state of the client App component. *)
(*     Where calls run one after another and no client is attached, both   *)
(*     stay as they start.                                                 *)
(***************************************************************************)
EXTENDS Integers, Sequences, FiniteSets, TLC

VARIABLES now, users, flightSearches, priceRecords, alerts, last, calls, app

vars == <<now, users, flightSearches, priceRecords, alerts, last, calls, app>>

tables == <<users, flightSearches, priceRecords, alerts>>

----------------------------------------------------------------------------
(* Bounds of the model *)

MaxTime == 2

MaxSearches == 2

MaxPrices == 3

MaxAlerts == 2

(* Rows per table when every operation runs together *)
MaxCoreRows == 1

(* Handler invocations that may be in progress at once *)
MaxCalls == 2

(* Requests of the client that may await their response at once *)
MaxRequests == 2

(* Input domains *)

Emails == {"a@example.com", "b@example.com"}

Cities == {"NYC", "LON"}

Dates == 1..(MaxTime + 1)

Prices == {45678}

Currencies == {"USD"}

Providers == {"TestProvider"}

AlertTypes == {"price_drop"}

Messages == {"m"}

----------------------------------------------------------------------------
(* Nullable values *)

Null == {}

Some(v) == {v}

Val(o) == CHOOSE v \in o : TRUE

Nullable(S) == {Null} \cup {Some(v) : v \in S}

(* Has(input, f): the caller supplied field f (input.f !== undefined) *)
Has(input, f) == f \in DOMAIN input

(* JavaScript truthiness of an optional nullable Date field: undefined and
   null are falsy, every Date object is truthy *)
TruthyDate(input, f) == Has(input, f) /\ input[f] # Null

(* Mutant: the return date is dropped *)
DateAlwaysNull(input, f) == Null

(* JavaScript `x || null` on an optional nullable Date field *)
DateOrNull(input, f) == IF TruthyDate(input, f) THEN input[f] ELSE Null

(* JavaScript `x || null` on an optional nullable number field: undefined,
   null and 0 are falsy *)
NumberOrNull(input, f) ==
    IF Has(input, f) /\ input[f] # Null /\ Val(input[f]) # 0
    THEN input[f] ELSE Null

(* The next value of a table's serial id *)
NextId(table) == Cardinality(DOMAIN table) + 1

(* Extend a table with one row *)
Insert(table, row) ==
    [i \in DOMAIN table \cup {row.id} |-> IF i = row.id THEN row ELSE table[i]]

Reply(op, input, out, res) == [op |-> op, in |-> input, out |-> out, res |-> res]

----------------------------------------------------------------------------
Init ==
    /\ now = 0
    /\ users = <<>>
    /\ flightSearches = <<>>
    /\ priceRecords = <<>>
    /\ alerts = <<>>
    /\ last = Reply("init", <<>>, "ok", <<>>)
    /\ calls = <<>>
    /\ app = [currentUser |-> Null, alerts |-> <<>>, unreadAlertCount |-> 0,
              requests |-> <<>>]

(* Calls run one after another, and no client is attached *)
Sequential == UNCHANGED <<calls, app>>

(* The wall clock advances between calls *)
Tick ==
    /\ now' = now + 1
    /\ last' = Reply("tick", <<>>, "ok", <<>>)
    /\ UNCHANGED tables

----------------------------------------------------------------------------
(* createUser: the insert into users, refused by the unique index on email *)

(* Mutant: no unique index on email *)
EmailNeverTaken(email) == FALSE

EmailTaken(email) == \E u \in DOMAIN users : users[u].email = email

NewUser(input, t) ==
    [id |-> NextId(users),
     email |-> input.email,
     telegram_chat_id |-> IF Has(input, "telegram_chat_id")
                          THEN input.telegram_chat_id ELSE Null,
     notification_enabled |-> input.notification_enabled,
     created_at |-> t]

createUser(input) ==
    IF EmailTaken(input.email)
    THEN /\ last' = Reply("createUser", input, "UniquenessViolation", <<>>)
         /\ UNCHANGED <<now, tables>>
    ELSE LET row == NewUser(input, now)
         IN  /\ users' = Insert(users, row)
             /\ last' = Reply("createUser", input, "ok", row)
             /\ UNCHANGED <<now, flightSearches, priceRecords, alerts>>

----------------------------------------------------------------------------
(* createFlightSearch *)

(* Mutant: the user lookup is skipped *)
UserAssumed(input) == TRUE

UserExists(input) == input.user_id \in DOMAIN users

(* Mutant: a departure at the current instant is let through *)
DepartureBeforeNow(input, t) == input.departure_date < t

(* input.departure_date <= now *)
DepartureNotFuture(input, t) == input.departure_date <= t

(* Mutant: a return at the instant of the departure is let through *)
ReturnBeforeDeparture(input) ==
    /\ TruthyDate(input, "return_date")
    /\ Val(input.return_date) < input.departure_date

(* input.return_date && input.return_date <= input.departure_date *)
ReturnNotAfterDeparture(input) ==
    /\ TruthyDate(input, "return_date")
    /\ Val(input.return_date) <= input.departure_date

NewFlightSearch(input, t) ==
    [id |-> NextId(flightSearches),
     user_id |-> input.user_id,
     origin_city |-> input.origin_city,
     destination_city |-> input.destination_city,
     departure_date |-> input.departure_date,
     return_date |-> DateOrNull(input, "return_date"),
     is_active |-> TRUE,
     created_at |-> t,
     updated_at |-> t]

(* Mutant: the row is inserted before the dates are checked *)
createFlightSearchInsertsFirst(input) ==
    IF ~UserExists(input)
    THEN /\ last' = Reply("createFlightSearch", input, "NotFound", <<>>)
         /\ UNCHANGED <<now, tables>>
    ELSE LET row == NewFlightSearch(input, now)
             bad == DepartureNotFuture(input, now) \/ ReturnNotAfterDeparture(input)
         IN  /\ flightSearches' = Insert(flightSearches, row)
             /\ last' = IF bad
                        THEN Reply("createFlightSearch", input, "InvalidTemporalRange", <<>>)
                        ELSE Reply("createFlightSearch", input, "ok", row)
             /\ UNCHANGED <<now, users, priceRecords, alerts>>

createFlightSearch(input) ==
    IF ~UserExists(input)
    THEN /\ last' = Reply("createFlightSearch", input, "NotFound", <<>>)
         /\ UNCHANGED <<now, tables>>
    ELSE IF DepartureNotFuture(input, now) \/ ReturnNotAfterDeparture(input)
    THEN /\ last' = Reply("createFlightSearch", input, "InvalidTemporalRange", <<>>)
         /\ UNCHANGED <<now, tables>>
    ELSE LET row == NewFlightSearch(input, now)
         IN  /\ flightSearches' = Insert(flightSearches, row)
             /\ last' = Reply("createFlightSearch", input, "ok", row)
             /\ UNCHANGED <<now, users, priceRecords, alerts>>

----------------------------------------------------------------------------
(* updateFlightSearch *)

UpdatableFields ==
    {"origin_city", "destination_city", "departure_date", "return_date", "is_active"}

(* Mutant: an omitted return_date is written as null *)
UpdateDataResetsReturn(input, t) ==
    [f \in {"updated_at", "return_date"} \cup (DOMAIN input \cap UpdatableFields) |->
        IF f = "updated_at" THEN t
        ELSE IF Has(input, f) THEN input[f] ELSE Null]

(* Mutant: updated_at is not written *)
UpdateDataNoTimestamp(input, t) ==
    [f \in DOMAIN input \cap UpdatableFields |-> input[f]]

(* updateData: updated_at plus every field with input.f !== undefined *)
UpdateData(input, t) ==
    [f \in {"updated_at"} \cup (DOMAIN input \cap UpdatableFields) |->
        IF f = "updated_at" THEN t ELSE input[f]]

(* UPDATE ... SET updateData on one row *)
SetRow(row, updateData) ==
    [f \in DOMAIN row |-> IF f \in DOMAIN updateData THEN updateData[f] ELSE row[f]]

updateFlightSearch(input) ==
    IF input.id \notin DOMAIN flightSearches
    THEN /\ last' = Reply("updateFlightSearch", input, "NotFound", <<>>)
         /\ UNCHANGED <<now, tables>>
    ELSE LET row == SetRow(flightSearches[input.id], UpdateData(input, now))
         IN  /\ flightSearches' = [flightSearches EXCEPT ![input.id] = row]
             /\ last' = Reply("updateFlightSearch", input, "ok", row)
             /\ UNCHANGED <<now, users, priceRecords, alerts>>

----------------------------------------------------------------------------
(* getActiveFlightSearches: is_active = true AND departure_date >= now *)

(* Mutant: the is_active condition is dropped *)
UpcomingAnyFlag(row, t) == row.departure_date >= t

(* Mutant: gt in place of gte *)
ActiveStrictlyUpcoming(row, t) == row.is_active /\ row.departure_date > t

ActiveUpcoming(row, t) == row.is_active /\ row.departure_date >= t

getActiveFlightSearches ==
    /\ last' = Reply("getActiveFlightSearches", <<>>, "ok",
                     {flightSearches[i] : i \in
                        {j \in DOMAIN flightSearches : ActiveUpcoming(flightSearches[j], now)}})
    /\ UNCHANGED <<now, tables>>

----------------------------------------------------------------------------
(* createPriceRecord *)

(* Mutant: the record is written over the first one *)
NewPriceRecordOverFirst(input, t) ==
    [id |-> 1,
     flight_search_id |-> input.flight_search_id,
     price |-> input.price,
     currency |-> input.currency,
     provider |-> input.provider,
     recorded_at |-> t]

NewPriceRecord(input, t) ==
    [id |-> NextId(priceRecords),
     flight_search_id |-> input.flight_search_id,
     price |-> input.price,
     currency |-> input.currency,
     provider |-> input.provider,
     recorded_at |-> t]

(* Mutant: the is_active check is left out *)
PriceRecordCheckExistsOnly(input) ==
    IF input.flight_search_id \notin DOMAIN flightSearches THEN "NotFound" ELSE "ok"

(* The error createPriceRecord throws before it inserts, "ok" when none *)
PriceRecordCheck(input) ==
    IF input.flight_search_id \notin DOMAIN flightSearches THEN "NotFound"
    ELSE IF ~flightSearches[input.flight_search_id].is_active THEN "Inactive"
    ELSE "ok"

createPriceRecord(input) ==
    IF PriceRecordCheck(input) # "ok"
    THEN /\ last' = Reply("createPriceRecord", input, PriceRecordCheck(input), <<>>)
         /\ UNCHANGED <<now, tables>>
    ELSE LET row == NewPriceRecord(input, now)
         IN  /\ priceRecords' = Insert(priceRecords, row)
             /\ last' = Reply("createPriceRecord", input, "ok", row)
             /\ UNCHANGED <<now, users, flightSearches, alerts>>

(* createPriceRecordInputSchema: price is z.number().positive(); the
   currencies and providers of the model are all well formed *)
createPriceRecordInputSchema(input) == input.price > 0

(* The procedure the router exposes: the input is parsed with the schema,
   and the handler runs only on an input that passes *)
appRouter_createPriceRecord(input) ==
    IF ~createPriceRecordInputSchema(input)
    THEN /\ last' = Reply("createPriceRecord", input, "BadRequest", <<>>)
         /\ UNCHANGED <<now, tables>>
    ELSE createPriceRecord(input)

----------------------------------------------------------------------------
(* getPriceHistory: the records of one search, recorded_at descending,
   at most `limit` of them, prices in major units *)

(* Mutant: the stored integer is returned as it is *)
ToMajorUnitsAsStored(price) == [units |-> price, hundredths |-> 0]

(* price / 100, kept exact: units and hundredths *)
ToMajorUnits(price) == [units |-> price \div 100, hundredths |-> price % 100]

RecordsOf(id) == {r \in DOMAIN priceRecords : priceRecords[r].flight_search_id = id}

(* Mutant: ascending order *)
OrderedAsc(ids) ==
    {s \in [1..Cardinality(ids) -> ids] :
        /\ \A i, j \in DOMAIN s : i # j => s[i] # s[j]
        /\ \A i, j \in DOMAIN s :
              i < j => priceRecords[s[i]].recorded_at <= priceRecords[s[j]].recorded_at}

(* The orders in which ORDER BY recorded_at DESC may return the rows `ids` *)
OrderedDesc(ids) ==
    {s \in [1..Cardinality(ids) -> ids] :
        /\ \A i, j \in DOMAIN s : i # j => s[i] # s[j]
        /\ \A i, j \in DOMAIN s :
              i < j => priceRecords[s[i]].recorded_at >= priceRecords[s[j]].recorded_at}

(* LIMIT input.limit when a limit is supplied *)
Limited(s, input) ==
    IF Has(input, "limit") /\ input.limit < Len(s) THEN SubSeq(s, 1, input.limit) ELSE s

Displayed(r) ==
    [id |-> r.id,
     flight_search_id |-> r.flight_search_id,
     price |-> ToMajorUnits(r.price),
     currency |-> r.currency,
     provider |-> r.provider,
     recorded_at |-> r.recorded_at]

getPriceHistory(input) ==
    \E s \in OrderedDesc(RecordsOf(input.flight_search_id)) :
        /\ last' = Reply("getPriceHistory", input, "ok",
                         [i \in DOMAIN Limited(s, input) |-> Displayed(priceRecords[s[i]])])
        /\ UNCHANGED <<now, tables>>

----------------------------------------------------------------------------
(* createAlert: the insert into alerts, refused by the foreign key on
   flight_search_id *)

(* Mutant: the alert is stored as read *)
NewAlertAlreadyRead(input, t) ==
    [id |-> NextId(alerts),
     flight_search_id |-> input.flight_search_id,
     alert_type |-> input.alert_type,
     old_price |-> NumberOrNull(input, "old_price"),
     new_price |-> input.new_price,
     currency |-> input.currency,
     message |-> input.message,
     is_read |-> TRUE,
     created_at |-> t]

NewAlert(input, t) ==
    [id |-> NextId(alerts),
     flight_search_id |-> input.flight_search_id,
     alert_type |-> input.alert_type,
     old_price |-> NumberOrNull(input, "old_price"),
     new_price |-> input.new_price,
     currency |-> input.currency,
     message |-> input.message,
     is_read |-> FALSE,
     created_at |-> t]

(* Mutant: no foreign key on flight_search_id *)
createAlertUnchecked(input) ==
    LET row == NewAlert(input, now)
    IN  /\ alerts' = Insert(alerts, row)
        /\ last' = Reply("createAlert", input, "ok", row)
        /\ UNCHANGED <<now, users, flightSearches, priceRecords>>

createAlert(input) ==
    IF input.flight_search_id \notin DOMAIN flightSearches
    THEN /\ last' = Reply("createAlert", input, "ReferentialViolation", <<>>)
         /\ UNCHANGED <<now, tables>>
    ELSE LET row == NewAlert(input, now)
         IN  /\ alerts' = Insert(alerts, row)
             /\ last' = Reply("createAlert", input, "ok", row)
             /\ UNCHANGED <<now, users, flightSearches, priceRecords>>

----------------------------------------------------------------------------
(* markAlertRead: UPDATE alerts SET is_read = true WHERE id = alertId
   RETURNING *; no row returned is the not-found error *)

(* Mutant: the old price is cleared along with the flag *)
MarkReadClearsOldPrice(row) == [row EXCEPT !.is_read = TRUE, !.old_price = Null]

(* Mutant: the flag is flipped *)
MarkReadToggles(row) == [row EXCEPT !.is_read = ~row.is_read]

MarkRead(row) == [row EXCEPT !.is_read = TRUE]

(* Mutant: an alert that is already read is refused *)
markAlertReadOnce(alertId) ==
    IF alertId \notin DOMAIN alerts \/ alerts[alertId].is_read
    THEN /\ last' = Reply("markAlertRead", alertId, "NotFound", <<>>)
         /\ UNCHANGED <<now, tables>>
    ELSE /\ alerts' = [alerts EXCEPT ![alertId] = MarkRead(alerts[alertId])]
         /\ last' = Reply("markAlertRead", alertId, "ok", MarkRead(alerts[alertId]))
         /\ UNCHANGED <<now, users, flightSearches, priceRecords>>

markAlertRead(alertId) ==
    IF alertId \notin DOMAIN alerts
    THEN /\ last' = Reply("markAlertRead", alertId, "NotFound", <<>>)
         /\ UNCHANGED <<now, tables>>
    ELSE /\ alerts' = [alerts EXCEPT ![alertId] = MarkRead(alerts[alertId])]
         /\ last' = Reply("markAlertRead", alertId, "ok", MarkRead(alerts[alertId]))
         /\ UNCHANGED <<now, users, flightSearches, priceRecords>>

----------------------------------------------------------------------------
(* getFlightSearchesByUser: user_id = input.user_id, and is_active =
   input.is_active when it is supplied; no ORDER BY, the result is a set *)

(* Mutant: the is_active condition is not added *)
UserSearchesAnyFlag(input) ==
    {s \in DOMAIN flightSearches : flightSearches[s].user_id = input.user_id}

UserSearches(input) ==
    {s \in DOMAIN flightSearches :
        /\ flightSearches[s].user_id = input.user_id
        /\ Has(input, "is_active") => flightSearches[s].is_active = input.is_active}

(* Mutant: a user_id with no user is refused *)
getFlightSearchesByUserStrict(input) ==
    /\ last' = IF input.user_id \in DOMAIN users
               THEN Reply("getFlightSearchesByUser", input, "ok",
                          {flightSearches[s] : s \in UserSearches(input)})
               ELSE Reply("getFlightSearchesByUser", input, "NotFound", <<>>)
    /\ UNCHANGED <<now, tables>>

getFlightSearchesByUser(input) ==
    /\ last' = Reply("getFlightSearchesByUser", input, "ok",
                     {flightSearches[s] : s \in UserSearches(input)})
    /\ UNCHANGED <<now, tables>>

----------------------------------------------------------------------------
(* getAlerts: with user_id supplied, alerts INNER JOIN flight_searches ON
   alerts.flight_search_id = flight_searches.id filtered on the owner and on
   the other supplied fields; otherwise alerts filtered on the supplied
   fields; ORDER BY alerts.created_at DESC in both *)

(* Mutant: the joined query ignores flight_search_id *)
JoinedAlertsAnySearch(input) ==
    {a \in DOMAIN alerts :
        \E s \in DOMAIN flightSearches :
            /\ alerts[a].flight_search_id = s
            /\ flightSearches[s].user_id = input.user_id
            /\ Has(input, "is_read") => alerts[a].is_read = input.is_read}

(* The alerts of the joined rows; an alert joins at most one flight search *)
JoinedAlerts(input) ==
    {a \in DOMAIN alerts :
        \E s \in DOMAIN flightSearches :
            /\ alerts[a].flight_search_id = s
            /\ flightSearches[s].user_id = input.user_id
            /\ Has(input, "flight_search_id") =>
                  alerts[a].flight_search_id = input.flight_search_id
            /\ Has(input, "is_read") => alerts[a].is_read = input.is_read}

SimpleAlerts(input) ==
    {a \in DOMAIN alerts :
        /\ Has(input, "flight_search_id") =>
              alerts[a].flight_search_id = input.flight_search_id
        /\ Has(input, "is_read") => alerts[a].is_read = input.is_read}

(* The orders in which ORDER BY created_at DESC may return the alerts `ids` *)
NewestFirst(ids) ==
    {s \in [1..Cardinality(ids) -> ids] :
        /\ \A i, j \in DOMAIN s : i # j => s[i] # s[j]
        /\ \A i, j \in DOMAIN s :
              i < j => alerts[s[i]].created_at >= alerts[s[j]].created_at}

getAlerts(input) ==
    \E s \in NewestFirst(IF Has(input, "user_id")
                         THEN JoinedAlerts(input) ELSE SimpleAlerts(input)) :
        /\ last' = Reply("getAlerts", input, "ok", [i \in DOMAIN s |-> alerts[s[i]]])
        /\ UNCHANGED <<now, tables>>

----------------------------------------------------------------------------
(* Handlers that run at the same time.  A handler gives up control at each
   await, so a call is a sequence of steps, one per statement sent to the
   store, and steps of different calls interleave.  `calls[c]` is what call
   c has computed when it has read the store and not yet written to it.

   updateFlightSearch: the SELECT of the search and the building of
   updateData (which reads the clock) are one step: between the two the
   call touches nothing shared, and a search that was found stays found.
   The UPDATE is the second step. *)

Begin(c, call) == [i \in DOMAIN calls \cup {c} |-> IF i = c THEN call ELSE calls[i]]

End(c) == [i \in DOMAIN calls \ {c} |-> calls[i]]

updateFlightSearchSelect(c, input) ==
    /\ c \notin DOMAIN calls
    /\ IF input.id \notin DOMAIN flightSearches
       THEN /\ last' = Reply("updateFlightSearch", input, "NotFound", <<>>)
            /\ UNCHANGED <<now, tables, calls>>
       ELSE /\ calls' = Begin(c, [op |-> "updateFlightSearch", input |-> input,
                                  updateData |-> UpdateData(input, now)])
            /\ UNCHANGED <<now, tables, last>>

(* Mutant: a write that carries an older timestamp than the stored one is
   dropped *)
updateFlightSearchUpdateIfNewer(c) ==
    /\ c \in DOMAIN calls
    /\ calls[c].op = "updateFlightSearch"
    /\ LET id == calls[c].input.id
           stale == calls[c].updateData.updated_at < flightSearches[id].updated_at
           row == IF stale THEN flightSearches[id]
                  ELSE SetRow(flightSearches[id], calls[c].updateData)
       IN  /\ flightSearches' = [flightSearches EXCEPT ![id] = row]
           /\ last' = Reply("updateFlightSearch", calls[c].input, "ok", row)
    /\ calls' = End(c)
    /\ UNCHANGED <<now, users, priceRecords, alerts>>

updateFlightSearchUpdate(c) ==
    /\ c \in DOMAIN calls
    /\ calls[c].op = "updateFlightSearch"
    /\ LET id == calls[c].input.id
           row == SetRow(flightSearches[id], calls[c].updateData)
       IN  /\ flightSearches' = [flightSearches EXCEPT ![id] = row]
           /\ last' = Reply("updateFlightSearch", calls[c].input, "ok", row)
    /\ calls' = End(c)
    /\ UNCHANGED <<now, users, priceRecords, alerts>>

(* createPriceRecord: the SELECT with the two checks, then the INSERT *)
createPriceRecordSelect(c, input) ==
    /\ c \notin DOMAIN calls
    /\ IF PriceRecordCheck(input) # "ok"
       THEN /\ last' = Reply("createPriceRecord", input, PriceRecordCheck(input), <<>>)
            /\ UNCHANGED <<now, tables, calls>>
       ELSE /\ calls' = Begin(c, [op |-> "createPriceRecord", input |-> input])
            /\ UNCHANGED <<now, tables, last>>

(* Mutant: the checks are made again in the statement that inserts *)
createPriceRecordInsertChecked(c) ==
    /\ c \in DOMAIN calls
    /\ calls[c].op = "createPriceRecord"
    /\ IF PriceRecordCheck(calls[c].input) # "ok"
       THEN /\ last' = Reply("createPriceRecord", calls[c].input,
                             PriceRecordCheck(calls[c].input), <<>>)
            /\ UNCHANGED <<now, tables>>
       ELSE LET row == NewPriceRecord(calls[c].input, now)
            IN  /\ priceRecords' = Insert(priceRecords, row)
                /\ last' = Reply("createPriceRecord", calls[c].input, "ok", row)
                /\ UNCHANGED <<now, users, flightSearches, alerts>>
    /\ calls' = End(c)

createPriceRecordInsert(c) ==
    /\ c \in DOMAIN calls
    /\ calls[c].op = "createPriceRecord"
    /\ LET row == NewPriceRecord(calls[c].input, now)
       IN  /\ priceRecords' = Insert(priceRecords, row)
           /\ last' = Reply("createPriceRecord", calls[c].input, "ok", row)
    /\ calls' = End(c)
    /\ UNCHANGED <<now, users, flightSearches, alerts>>

----------------------------------------------------------------------------
(* The client App component.  `app.alerts` and `app.unreadAlertCount` are
   its two pieces of state about alerts, `app.currentUser` the user it
   works for, and `app.requests` the requests it awaits, each with the
   response the server has produced for it.  A request is answered by the
   server when it is sent; the response reaches the component later, and
   responses may arrive in any order.  The state updates a continuation
   makes are applied together. *)

Unread(list) == Cardinality({i \in DOMAIN list : ~list[i].is_read})

Without(s, i) == [j \in 1..(Len(s) - 1) |-> IF j < i THEN s[j] ELSE s[j + 1]]

(* handleUserCreated, and the effect it triggers: loadAlerts sends
   getAlerts({user_id: currentUser.id}) *)
handleUserCreated(u) ==
    /\ app.currentUser = Null
    /\ u \in DOMAIN users
    /\ Len(app.requests) < MaxRequests
    /\ getAlerts([user_id |-> u])
    /\ app' = [app EXCEPT !.currentUser = Some(u),
                          !.requests = Append(@, [op |-> "loadAlerts", res |-> last'.res])]

(* loadAlerts after the await: setAlerts, setUnreadAlertCount *)
loadAlertsDone(i) ==
    /\ i \in DOMAIN app.requests
    /\ app.requests[i].op = "loadAlerts"
    /\ app' = [app EXCEPT !.alerts = app.requests[i].res,
                          !.unreadAlertCount = Unread(app.requests[i].res),
                          !.requests = Without(@, i)]
    /\ UNCHANGED <<now, tables, last>>

(* The Mark Read button, rendered for the alerts that are unread in the
   local list: handleAlertRead sends markAlertRead({alertId}) *)
handleAlertRead(alertId) ==
    /\ \E i \in DOMAIN app.alerts : app.alerts[i].id = alertId /\ ~app.alerts[i].is_read
    /\ Len(app.requests) < MaxRequests
    /\ markAlertRead(alertId)
    /\ app' = [app EXCEPT !.requests =
                  Append(@, [op |-> "handleAlertRead", alertId |-> alertId,
                             out |-> last'.out])]

(* handleAlertRead after the await: the alert is marked in the local list
   and the count decreased, or the error is logged *)
handleAlertReadDone(i) ==
    /\ i \in DOMAIN app.requests
    /\ app.requests[i].op = "handleAlertRead"
    /\ LET alertId == app.requests[i].alertId
           marked == [j \in DOMAIN app.alerts |->
                        IF app.alerts[j].id = alertId
                        THEN [app.alerts[j] EXCEPT !.is_read = TRUE] ELSE app.alerts[j]]
           count == IF app.unreadAlertCount - 1 > 0 THEN app.unreadAlertCount - 1 ELSE 0
       IN  app' = IF app.requests[i].out = "ok"
                  THEN [app EXCEPT !.alerts = marked,
                                   !.unreadAlertCount = count,
                                   !.requests = Without(@, i)]
                  ELSE [app EXCEPT !.requests = Without(@, i)]
    /\ UNCHANGED <<now, tables, last>>

----------------------------------------------------------------------------
(* Removal of rows from the store.  No handler removes a row; the statements
   below are DELETE FROM users / flight_searches WHERE id = ..., with the
   ON DELETE CASCADE the three foreign keys declare.  The reply carries the
   number of rows of the named table that were removed. *)

Remove(table, ids) == [i \in DOMAIN table \ ids |-> table[i]]

(* The rows of a child table whose flight_search_id is one of `ids` *)
ChildrenOf(table, ids) == {r \in DOMAIN table : table[r].flight_search_id \in ids}

SearchesOfUsers(ids) == {s \in DOMAIN flightSearches : flightSearches[s].user_id \in ids}

(* Mutant: the price records and alerts of the search are left behind *)
deleteFromFlightSearchesOnly(id) ==
    /\ flightSearches' = Remove(flightSearches, {id})
    /\ last' = Reply("deleteFromFlightSearches", id, "ok",
                     Cardinality(DOMAIN flightSearches \cap {id}))
    /\ UNCHANGED <<now, users, priceRecords, alerts>>

deleteFromFlightSearches(id) ==
    /\ flightSearches' = Remove(flightSearches, {id})
    /\ priceRecords' = Remove(priceRecords, ChildrenOf(priceRecords, {id}))
    /\ alerts' = Remove(alerts, ChildrenOf(alerts, {id}))
    /\ last' = Reply("deleteFromFlightSearches", id, "ok",
                     Cardinality(DOMAIN flightSearches \cap {id}))
    /\ UNCHANGED <<now, users>>

deleteFromUsers(id) ==
    LET gone == SearchesOfUsers({id})
    IN  /\ users' = Remove(users, {id})
        /\ flightSearches' = Remove(flightSearches, gone)
        /\ priceRecords' = Remove(priceRecords, ChildrenOf(priceRecords, gone))
        /\ alerts' = Remove(alerts, ChildrenOf(alerts, gone))
        /\ last' = Reply("deleteFromUsers", id, "ok", Cardinality(DOMAIN users \cap {id}))
        /\ UNCHANGED now

----------------------------------------------------------------------------
(* The calls the environment makes *)

(* The inputs that supply field f with a value of S, and the one that omits it *)
Optional(f, S) == {<<>>} \cup {f :> v : v \in S}

UserIds == 1..(Cardinality(Emails) + 1)

SearchIds == 1..(MaxSearches + 1)

AlertIds == 1..(MaxAlerts + 1)

CreateUserInputs ==
    {[email |-> e, notification_enabled |-> TRUE] : e \in Emails}

CreateFlightSearchInputs ==
    {[user_id |-> u, origin_city |-> o, destination_city |-> d, departure_date |-> dep] @@ ret :
        u \in UserIds, o \in Cities, d \in Cities, dep \in Dates,
        ret \in Optional("return_date", Nullable(Dates))}

UpdateFlightSearchInputs ==
    {[id |-> i] @@ o @@ d @@ dep @@ ret @@ act :
        i \in SearchIds,
        o \in Optional("origin_city", Cities),
        d \in Optional("destination_city", Cities),
        dep \in Optional("departure_date", Dates),
        ret \in Optional("return_date", Nullable(Dates)),
        act \in Optional("is_active", BOOLEAN)}

CreatePriceRecordInputs ==
    [flight_search_id : SearchIds, price : Prices, currency : Currencies,
     provider : Providers]

GetPriceHistoryInputs ==
    {[flight_search_id |-> i] @@ l :
        i \in SearchIds, l \in Optional("limit", 1..MaxPrices)}

CreateAlertInputs ==
    {[flight_search_id |-> i, alert_type |-> a, new_price |-> p, currency |-> c,
      message |-> m] @@ old :
        i \in SearchIds, a \in AlertTypes, p \in Prices \ {0}, c \in Currencies,
        m \in Messages, old \in Optional("old_price", Nullable(Prices))}

GetFlightSearchesByUserInputs ==
    {[user_id |-> u] @@ act : u \in UserIds, act \in Optional("is_active", BOOLEAN)}

GetAlertsInputs ==
    {u @@ i @@ r :
        u \in Optional("user_id", UserIds),
        i \in Optional("flight_search_id", SearchIds),
        r \in Optional("is_read", BOOLEAN)}

(* One user signs up *)
OneUserInputs == {in \in CreateUserInputs : in.email = "a@example.com"}

(* The tables and the clock stay within the bounds *)
Within(maxSearches) ==
    /\ now' <= MaxTime
    /\ Cardinality(DOMAIN flightSearches') <= maxSearches
    /\ Cardinality(DOMAIN priceRecords') <= MaxPrices
    /\ Cardinality(DOMAIN alerts') <= MaxAlerts

Next ==
    \/ Tick /\ Within(MaxSearches) /\ Sequential
    \/ \E input \in CreateUserInputs : createUser(input) /\ Sequential
    \/ \E input \in CreateFlightSearchInputs :
          createFlightSearch(input) /\ Within(MaxSearches) /\ Sequential
    \/ \E input \in UpdateFlightSearchInputs : updateFlightSearch(input) /\ Sequential
    \/ getActiveFlightSearches /\ Sequential
    \/ \E input \in CreatePriceRecordInputs :
          createPriceRecord(input) /\ Within(MaxSearches) /\ Sequential
    \/ \E input \in GetPriceHistoryInputs : getPriceHistory(input) /\ Sequential
    \/ \E input \in CreateAlertInputs : createAlert(input) /\ Within(MaxSearches) /\ Sequential
    \/ \E alertId \in AlertIds : markAlertRead(alertId) /\ Sequential
    \/ \E input \in GetFlightSearchesByUserInputs : getFlightSearchesByUser(input) /\ Sequential
    \/ \E input \in GetAlertsInputs : getAlerts(input) /\ Sequential

Spec == Init /\ [][Next]_vars

----------------------------------------------------------------------------
(* The search registry alone: one search, every combination of supplied
   update fields *)

WideCreateFlightSearchInputs ==
    {in \in CreateFlightSearchInputs :
        /\ in.user_id <= 2
        /\ in.origin_city = "NYC" /\ in.destination_city = "LON"
        /\ in.departure_date < MaxTime + 1
        /\ TruthyDate(in, "return_date") => Val(in.return_date) < MaxTime + 1}

WideUpdateFlightSearchInputs ==
    {in \in UpdateFlightSearchInputs :
        /\ in.id = 1
        /\ Has(in, "origin_city") => in.origin_city = "LON"
        /\ Has(in, "destination_city") => in.destination_city = "NYC"
        /\ Has(in, "departure_date") => in.departure_date < MaxTime + 1
        /\ TruthyDate(in, "return_date") => Val(in.return_date) < MaxTime + 1}

NextSearch ==
    \/ Tick /\ Within(1) /\ Sequential
    \/ \E input \in OneUserInputs : createUser(input) /\ Sequential
    \/ \E input \in WideCreateFlightSearchInputs :
          createFlightSearch(input) /\ Within(1) /\ Sequential
    \/ \E input \in WideUpdateFlightSearchInputs : updateFlightSearch(input) /\ Sequential

SpecSearch == Init /\ [][NextSearch]_vars

----------------------------------------------------------------------------
(* The scheduler feed: two users, one-way searches of one route with any
   departure date, switched on and off *)

ActiveCreateFlightSearchInputs ==
    {in \in CreateFlightSearchInputs :
        /\ in.origin_city = "NYC" /\ in.destination_city = "LON"
        /\ ~Has(in, "return_date")}

SwitchFlightSearchInputs ==
    {in \in UpdateFlightSearchInputs : DOMAIN in \subseteq {"id", "is_active"}}

NextActive ==
    \/ Tick /\ Within(MaxSearches) /\ Sequential
    \/ \E input \in CreateUserInputs : createUser(input) /\ Sequential
    \/ \E input \in ActiveCreateFlightSearchInputs :
          createFlightSearch(input) /\ Within(MaxSearches) /\ Sequential
    \/ \E input \in SwitchFlightSearchInputs : updateFlightSearch(input) /\ Sequential
    \/ getActiveFlightSearches /\ Sequential

SpecActive == Init /\ [][NextActive]_vars

----------------------------------------------------------------------------
(* The price ledger: one-way searches on one route, departing after the
   last clock reading, switched on and off *)

PlainCreateFlightSearchInputs ==
    {in \in ActiveCreateFlightSearchInputs :
        in.user_id <= 2 /\ in.departure_date = MaxTime + 1}

NextLedger ==
    \/ Tick /\ Within(MaxSearches) /\ Sequential
    \/ \E input \in OneUserInputs : createUser(input) /\ Sequential
    \/ \E input \in PlainCreateFlightSearchInputs :
          createFlightSearch(input) /\ Within(MaxSearches) /\ Sequential
    \/ \E input \in SwitchFlightSearchInputs : updateFlightSearch(input) /\ Sequential
    \/ getActiveFlightSearches /\ Sequential
    \/ \E input \in CreatePriceRecordInputs :
          createPriceRecord(input) /\ Within(MaxSearches) /\ Sequential
    \/ \E input \in GetPriceHistoryInputs : getPriceHistory(input) /\ Sequential

SpecLedger == Init /\ [][NextLedger]_vars

----------------------------------------------------------------------------
(* The alerts: the same searches, alerts created and marked read *)

NextAlerts ==
    \/ Tick /\ Within(MaxSearches) /\ Sequential
    \/ \E input \in OneUserInputs : createUser(input) /\ Sequential
    \/ \E input \in PlainCreateFlightSearchInputs :
          createFlightSearch(input) /\ Within(MaxSearches) /\ Sequential
    \/ \E input \in SwitchFlightSearchInputs : updateFlightSearch(input) /\ Sequential
    \/ \E input \in CreateAlertInputs : createAlert(input) /\ Within(MaxSearches) /\ Sequential
    \/ \E alertId \in AlertIds : markAlertRead(alertId) /\ Sequential

SpecAlerts == Init /\ [][NextAlerts]_vars

----------------------------------------------------------------------------
(* The inbox: two users, each search owned by one of them, alerts without an
   old price created, marked read and listed *)

InboxCreateAlertInputs == {in \in CreateAlertInputs : ~Has(in, "old_price")}

InboxGetAlertsInputs ==
    {in \in GetAlertsInputs :
        /\ Has(in, "user_id") => in.user_id <= 2
        /\ Has(in, "flight_search_id") => in.flight_search_id <= 2}

NextInbox ==
    \/ Tick /\ Within(MaxSearches) /\ Sequential
    \/ \E input \in CreateUserInputs : createUser(input) /\ Sequential
    \/ \E input \in PlainCreateFlightSearchInputs :
          createFlightSearch(input) /\ Within(MaxSearches) /\ Sequential
    \/ \E input \in InboxCreateAlertInputs : createAlert(input) /\ Within(MaxSearches) /\ Sequential
    \/ \E alertId \in AlertIds : markAlertRead(alertId) /\ Sequential
    \/ \E input \in InboxGetAlertsInputs : getAlerts(input) /\ Sequential

SpecInbox == Init /\ [][NextInbox]_vars

----------------------------------------------------------------------------
(* Every operation together, on tables of at most MaxCoreRows rows *)

WithinCore ==
    /\ now' <= MaxTime
    /\ Cardinality(DOMAIN flightSearches') <= MaxCoreRows
    /\ Cardinality(DOMAIN priceRecords') <= MaxCoreRows
    /\ Cardinality(DOMAIN alerts') <= MaxCoreRows

NextCore ==
    \/ Tick /\ WithinCore /\ Sequential
    \/ \E input \in OneUserInputs : createUser(input) /\ Sequential
    \/ \E input \in WideCreateFlightSearchInputs :
          createFlightSearch(input) /\ WithinCore /\ Sequential
    \/ \E input \in SwitchFlightSearchInputs : updateFlightSearch(input) /\ Sequential
    \/ getActiveFlightSearches /\ Sequential
    \/ \E input \in GetFlightSearchesByUserInputs : getFlightSearchesByUser(input) /\ Sequential
    \/ \E input \in CreatePriceRecordInputs : createPriceRecord(input) /\ WithinCore /\ Sequential
    \/ \E input \in GetPriceHistoryInputs : getPriceHistory(input) /\ Sequential
    \/ \E input \in InboxCreateAlertInputs : createAlert(input) /\ WithinCore /\ Sequential
    \/ \E input \in InboxGetAlertsInputs : getAlerts(input) /\ Sequential
    \/ \E alertId \in AlertIds : markAlertRead(alertId) /\ Sequential

SpecCore == Init /\ [][NextCore]_vars

----------------------------------------------------------------------------
(* The price ledger as the router exposes it: the caller may send a price
   of zero *)

ExposedCreatePriceRecordInputs ==
    [flight_search_id : SearchIds, price : Prices \cup {0}, currency : Currencies,
     provider : Providers]

NextExposed ==
    \/ Tick /\ Within(MaxSearches) /\ Sequential
    \/ \E input \in OneUserInputs : createUser(input) /\ Sequential
    \/ \E input \in PlainCreateFlightSearchInputs :
          createFlightSearch(input) /\ Within(MaxSearches) /\ Sequential
    \/ \E input \in SwitchFlightSearchInputs : updateFlightSearch(input) /\ Sequential
    \/ \E input \in ExposedCreatePriceRecordInputs :
          appRouter_createPriceRecord(input) /\ Within(MaxSearches) /\ Sequential

SpecExposed == Init /\ [][NextExposed]_vars

----------------------------------------------------------------------------
(* The registry: two users, one-way and return searches on one route,
   switched on and off and listed by owner *)

RegistryCreateFlightSearchInputs ==
    {in \in CreateFlightSearchInputs :
        /\ in.user_id <= 2
        /\ in.origin_city = "NYC" /\ in.destination_city = "LON"
        /\ in.departure_date = MaxTime
        /\ TruthyDate(in, "return_date") => Val(in.return_date) = MaxTime + 1}

RegistryGetFlightSearchesInputs ==
    {in \in GetFlightSearchesByUserInputs : in.user_id <= 2}

NextRegistry ==
    \/ Tick /\ Within(MaxSearches) /\ Sequential
    \/ \E input \in CreateUserInputs : createUser(input) /\ Sequential
    \/ \E input \in RegistryCreateFlightSearchInputs :
          createFlightSearch(input) /\ Within(MaxSearches) /\ Sequential
    \/ \E input \in SwitchFlightSearchInputs : updateFlightSearch(input) /\ Sequential
    \/ \E input \in RegistryGetFlightSearchesInputs : getFlightSearchesByUser(input) /\ Sequential

SpecRegistry == Init /\ [][NextRegistry]_vars

----------------------------------------------------------------------------
(* Alerts whose old price may be zero *)

OldPriceCreateAlertInputs ==
    {[flight_search_id |-> i, alert_type |-> a, new_price |-> p, currency |-> c,
      message |-> m] @@ old :
        i \in SearchIds, a \in AlertTypes, p \in Prices \ {0}, c \in Currencies,
        m \in Messages, old \in Optional("old_price", Nullable(Prices \cup {0}))}

NextOldPrice ==
    \/ Tick /\ Within(MaxSearches) /\ Sequential
    \/ \E input \in OneUserInputs : createUser(input) /\ Sequential
    \/ \E input \in PlainCreateFlightSearchInputs :
          createFlightSearch(input) /\ Within(MaxSearches) /\ Sequential
    \/ \E input \in OldPriceCreateAlertInputs : createAlert(input) /\ Within(MaxSearches) /\ Sequential

SpecOldPrice == Init /\ [][NextOldPrice]_vars

----------------------------------------------------------------------------
(* The store with removals: rows are created by the handlers and removed by
   DELETE statements.  The serial of a table is modelled as its row count
   plus one, so a row is created only while the ids of the table have no
   gap; an id freed by removing the newest row is handed out again, where
   the serial of the store would skip it. *)

Dense(table) == DOMAIN table = 1..Cardinality(DOMAIN table)

NextStore ==
    \/ \E input \in CreateUserInputs : createUser(input) /\ Dense(users) /\ Sequential
    \/ \E input \in PlainCreateFlightSearchInputs :
          createFlightSearch(input) /\ Within(MaxSearches) /\ Dense(flightSearches) /\ Sequential
    \/ \E input \in CreatePriceRecordInputs :
          createPriceRecord(input) /\ Within(MaxSearches) /\ Dense(priceRecords) /\ Sequential
    \/ \E input \in InboxCreateAlertInputs :
          createAlert(input) /\ Within(MaxSearches) /\ Dense(alerts) /\ Sequential
    \/ \E id \in SearchIds : deleteFromFlightSearches(id) /\ Sequential
    \/ \E id \in UserIds : deleteFromUsers(id) /\ Sequential

SpecStore == Init /\ [][NextStore]_vars

----------------------------------------------------------------------------
(* Overlapping calls on one search: updates of the origin and of the flag,
   and price records *)

CallIds == 1..MaxCalls

RaceUpdateFlightSearchInputs ==
    {in \in UpdateFlightSearchInputs :
        /\ in.id <= 2
        /\ DOMAIN in \subseteq {"id", "origin_city", "is_active"}
        /\ Has(in, "origin_city") => in.origin_city = "LON"}

RaceCreatePriceRecordInputs == {in \in CreatePriceRecordInputs : in.flight_search_id <= 2}

NextRace ==
    \/ Tick /\ WithinCore /\ UNCHANGED <<calls, app>>
    \/ \E input \in OneUserInputs : createUser(input) /\ UNCHANGED <<calls, app>>
    \/ \E input \in PlainCreateFlightSearchInputs :
          createFlightSearch(input) /\ WithinCore /\ UNCHANGED <<calls, app>>
    \/ \E c \in CallIds, input \in RaceUpdateFlightSearchInputs :
          updateFlightSearchSelect(c, input) /\ UNCHANGED app
    \/ \E c \in CallIds : updateFlightSearchUpdate(c) /\ UNCHANGED app
    \/ \E c \in CallIds, input \in RaceCreatePriceRecordInputs :
          createPriceRecordSelect(c, input) /\ UNCHANGED app
    \/ \E c \in CallIds : createPriceRecordInsert(c) /\ WithinCore /\ UNCHANGED app

SpecRace == Init /\ [][NextRace]_vars

----------------------------------------------------------------------------
(* The client against the server: alerts are created for the searches of
   the user, the client loads them and marks them read *)

RequestIds == 1..MaxRequests

NextClient ==
    \/ Tick /\ Within(MaxSearches) /\ Sequential
    \/ \E input \in OneUserInputs : createUser(input) /\ Sequential
    \/ \E input \in PlainCreateFlightSearchInputs :
          createFlightSearch(input) /\ Within(MaxCoreRows) /\ Sequential
    \/ \E input \in InboxCreateAlertInputs :
          createAlert(input) /\ Within(MaxCoreRows) /\ Sequential
    \/ \E u \in UserIds : handleUserCreated(u) /\ UNCHANGED calls
    \/ \E i \in RequestIds : loadAlertsDone(i) /\ UNCHANGED calls
    \/ \E alertId \in AlertIds : handleAlertRead(alertId) /\ UNCHANGED calls
    \/ \E i \in RequestIds : handleAlertReadDone(i) /\ UNCHANGED calls

SpecClient == Init /\ [][NextClient]_vars

----------------------------------------------------------------------------
(* Properties.  A step of a handler is a step whose reply `last'` names the
   handler; the unprimed variables are the store the call found. *)

Called(op) == last'.op = op

Failed(kind) == last'.out = kind /\ UNCHANGED tables

SearchExists(id) == id \in DOMAIN flightSearches

(* C1: createPriceRecord on a flight_search_id that does not exist fails with
   NotFound, on a search with is_active = false it fails with Inactive, and
   in both cases no price record is inserted. *)
C1_PriceRecordRefused ==
    [][Called("createPriceRecord") =>
        LET id == last'.in.flight_search_id
        IN  /\ ~SearchExists(id) => Failed("NotFound")
            /\ (SearchExists(id) /\ ~flightSearches[id].is_active) => Failed("Inactive")
      ]_vars

C1_Witness ==
    /\ last.op = "createPriceRecord"
    /\ last.out = "Inactive"
    /\ priceRecords # <<>>
    /\ \E r \in DOMAIN priceRecords :
          priceRecords[r].flight_search_id = last.in.flight_search_id

(* C2: once updateFlightSearch(id, {is_active: false}) has completed, the
   search stays inactive until an update supplies is_active = true; while it
   is inactive every createPriceRecord for it fails with Inactive and no
   getActiveFlightSearches result contains it. *)
C2_DeactivatedStaysOut ==
    [][/\ (/\ Called("updateFlightSearch") /\ last'.out = "ok"
           /\ Has(last'.in, "is_active") /\ ~last'.in.is_active)
          => ~flightSearches'[last'.in.id].is_active
       /\ \A id \in DOMAIN flightSearches :
            ~flightSearches[id].is_active =>
              /\ flightSearches'[id].is_active =>
                    /\ Called("updateFlightSearch") /\ last'.in.id = id
                    /\ Has(last'.in, "is_active") /\ last'.in.is_active
              /\ (Called("createPriceRecord") /\ last'.in.flight_search_id = id)
                    => Failed("Inactive")
              /\ Called("getActiveFlightSearches")
                    => \A row \in last'.res : row.id # id
      ]_vars

C2_Witness ==
    /\ last.op = "getActiveFlightSearches"
    /\ last.res # {}
    /\ \E id \in DOMAIN flightSearches :
          /\ ~flightSearches[id].is_active
          /\ flightSearches[id].departure_date >= now
          /\ flightSearches[id].updated_at > flightSearches[id].created_at
          /\ \E r \in DOMAIN priceRecords : priceRecords[r].flight_search_id = id

(* C3: createFlightSearch for an existing user with departure_date <= now,
   equality included, fails with InvalidTemporalRange and inserts nothing. *)
C3_DepartureMustBeFuture ==
    [][(/\ Called("createFlightSearch")
        /\ last'.in.user_id \in DOMAIN users
        /\ last'.in.departure_date <= now)
       => Failed("InvalidTemporalRange")
      ]_vars

C3_Witness ==
    /\ last.op = "createFlightSearch"
    /\ last.in.user_id \in DOMAIN users
    /\ last.in.departure_date = now
    /\ last.out = "InvalidTemporalRange"

(* C4: createFlightSearch for an existing user with a future departure_date
   and a non-null return_date fails with InvalidTemporalRange when
   return_date <= departure_date and succeeds, storing the search, when
   return_date > departure_date. *)
C4_ReturnMustFollowDeparture ==
    [][(/\ Called("createFlightSearch")
        /\ last'.in.user_id \in DOMAIN users
        /\ last'.in.departure_date > now
        /\ TruthyDate(last'.in, "return_date"))
       => IF Val(last'.in.return_date) <= last'.in.departure_date
          THEN Failed("InvalidTemporalRange")
          ELSE /\ last'.out = "ok"
               /\ DOMAIN flightSearches' = DOMAIN flightSearches \cup {last'.res.id}
               /\ last'.res.id \notin DOMAIN flightSearches
               /\ flightSearches'[last'.res.id] = last'.res
               /\ last'.res.return_date = last'.in.return_date
               /\ last'.res.departure_date = last'.in.departure_date
      ]_vars

C4_Witness ==
    /\ last.op = "createFlightSearch"
    /\ last.out = "ok"
    /\ TruthyDate(last.in, "return_date")
    /\ Val(last.in.return_date) = last.in.departure_date + 1
    /\ flightSearches[last.res.id].return_date = last.in.return_date

(* C5: operations on one entity fail with NotFound when the id is absent:
   createFlightSearch for a user_id with no user, updateFlightSearch for an
   id with no flight search, markAlertRead for an id with no alert. *)
C5_AbsentIdNotFound ==
    [][/\ (Called("createFlightSearch") /\ last'.in.user_id \notin DOMAIN users)
          => Failed("NotFound")
       /\ (Called("updateFlightSearch") /\ ~SearchExists(last'.in.id))
          => Failed("NotFound")
       /\ (Called("markAlertRead") /\ last'.in \notin DOMAIN alerts)
          => Failed("NotFound")
      ]_vars

C5_Witness ==
    /\ last.op = "markAlertRead"
    /\ last.out = "NotFound"
    /\ alerts # <<>>
    /\ last.in \notin DOMAIN alerts

(* C6: a successful updateFlightSearch sets every supplied field to the
   supplied value (return_date null included) and leaves every omitted field,
   id, user_id and created_at, and every other search, as they were. *)
C6_OnlySuppliedFieldsChange ==
    [][(Called("updateFlightSearch") /\ last'.out = "ok") =>
        LET in == last'.in
            old == flightSearches[in.id]
            new == flightSearches'[in.id]
        IN  /\ DOMAIN flightSearches' = DOMAIN flightSearches
            /\ \A i \in DOMAIN flightSearches \ {in.id} :
                  flightSearches'[i] = flightSearches[i]
            /\ \A f \in UpdatableFields :
                  new[f] = IF Has(in, f) THEN in[f] ELSE old[f]
            /\ new.id = old.id
            /\ new.user_id = old.user_id
            /\ new.created_at = old.created_at
            /\ last'.res = new
      ]_vars

C6_Witness ==
    /\ last.op = "updateFlightSearch"
    /\ last.out = "ok"
    /\ DOMAIN last.in = {"id", "origin_city"}
    /\ flightSearches[last.in.id].return_date # Null
    /\ flightSearches[last.in.id].origin_city = "LON"
    /\ flightSearches[last.in.id].destination_city = "LON"
    /\ ~flightSearches[last.in.id].is_active

(* C7, as the specification states it: after any successful
   updateFlightSearch the stored updated_at is strictly greater than before. *)
C7_UpdatedAtStrictlyGreater ==
    [][(Called("updateFlightSearch") /\ last'.out = "ok") =>
        flightSearches'[last'.in.id].updated_at > flightSearches[last'.in.id].updated_at
      ]_vars

(* C7, amended: after any successful updateFlightSearch, a zero-field one
   included, the stored updated_at is the clock reading of the call; it is
   greater than the value before exactly when that reading is later than it. *)
C7_UpdatedAtIsCallTime ==
    [][(Called("updateFlightSearch") /\ last'.out = "ok") =>
        LET old == flightSearches[last'.in.id].updated_at
            new == flightSearches'[last'.in.id].updated_at
        IN  /\ new = now
            /\ new > old <=> now > old
      ]_vars

C7_Witness ==
    /\ last.op = "updateFlightSearch"
    /\ last.out = "ok"
    /\ DOMAIN last.in = {"id"}
    /\ flightSearches[last.in.id].updated_at = now
    /\ flightSearches[last.in.id].created_at < now

(* C8: every stored flight search with a non-null return_date has
   return_date strictly after departure_date. *)
C8_ReturnAfterDeparture ==
    \A id \in DOMAIN flightSearches :
        flightSearches[id].return_date # Null =>
            Val(flightSearches[id].return_date) > flightSearches[id].departure_date

(* C9: getActiveFlightSearches returns exactly the stored searches with
   is_active = true and departure_date >= now, and changes no stored row. *)
C9_ActiveUpcomingExactly ==
    [][Called("getActiveFlightSearches") =>
        /\ last'.res =
              {flightSearches[i] : i \in
                  {j \in DOMAIN flightSearches :
                      /\ flightSearches[j].is_active = TRUE
                      /\ flightSearches[j].departure_date >= now}}
        /\ last'.out = "ok"
        /\ UNCHANGED tables
      ]_vars

C9_Witness ==
    /\ last.op = "getActiveFlightSearches"
    /\ \E i, j \in DOMAIN flightSearches :
          /\ flightSearches[i].is_active
          /\ flightSearches[i].departure_date < now
          /\ flightSearches[i] \notin last.res
          /\ flightSearches[j].departure_date = now
          /\ flightSearches[j] \in last.res
          /\ flightSearches[j].user_id # flightSearches[i].user_id

(* C10: getPriceHistory returns price records of the given search only,
   ordered by recorded_at descending; without a limit all of them, with
   limit k exactly min(k, available) of them, none older than a record of
   the search that is left out. *)
C10_HistoryNewestFirstLimited ==
    [][Called("getPriceHistory") =>
        LET in == last'.in
            res == last'.res
            avail == {r \in DOMAIN priceRecords :
                        priceRecords[r].flight_search_id = in.flight_search_id}
            got == {res[i].id : i \in DOMAIN res}
        IN  /\ last'.out = "ok"
            /\ got \subseteq avail
            /\ Cardinality(got) = Len(res)
            /\ Len(res) = IF Has(in, "limit") /\ in.limit < Cardinality(avail)
                          THEN in.limit ELSE Cardinality(avail)
            /\ \A i \in DOMAIN res : res[i].recorded_at = priceRecords[res[i].id].recorded_at
            /\ \A i, j \in DOMAIN res : i < j => res[i].recorded_at >= res[j].recorded_at
            /\ \A r \in got, q \in avail \ got :
                  priceRecords[r].recorded_at >= priceRecords[q].recorded_at
      ]_vars

C10_Witness ==
    /\ last.op = "getPriceHistory"
    /\ Has(last.in, "limit")
    /\ Len(last.res) = last.in.limit
    /\ \E q \in DOMAIN priceRecords :
          /\ priceRecords[q].flight_search_id = last.in.flight_search_id
          /\ \A i \in DOMAIN last.res :
                /\ last.res[i].id # q
                /\ last.res[i].recorded_at > priceRecords[q].recorded_at
    /\ \E q \in DOMAIN priceRecords :
          priceRecords[q].flight_search_id # last.in.flight_search_id

(* C11: getPriceHistory returns each record's price as the stored minor-unit
   integer divided by 100 (45678 is returned as 456.78), and the stored
   price of every record stays the same integer. *)
C11_PriceShownInMajorUnits ==
    [][Called("getPriceHistory") =>
        /\ priceRecords' = priceRecords
        /\ \A r \in DOMAIN priceRecords' : priceRecords'[r].price \in Int
        /\ \A i \in DOMAIN last'.res :
              LET shown == last'.res[i].price
                  stored == priceRecords'[last'.res[i].id].price
              IN  /\ shown.hundredths \in 0..99
                  /\ shown.units * 100 + shown.hundredths = stored
      ]_vars

C11_Witness ==
    /\ last.op = "getPriceHistory"
    /\ Len(last.res) >= 1
    /\ last.res[1].price = [units |-> 456, hundredths |-> 78]
    /\ priceRecords[last.res[1].id].price = 45678

AlertFields ==
    {"id", "flight_search_id", "alert_type", "old_price", "new_price", "currency",
     "message", "is_read", "created_at"}

(* C12: markAlertRead on an existing alert returns and stores that alert
   with is_read = true and every other field as it was; no other alert and
   no other table changes. *)
C12_MarkReadChangesOnlyTheFlag ==
    [][(Called("markAlertRead") /\ last'.in \in DOMAIN alerts) =>
        LET old == alerts[last'.in]
            new == alerts'[last'.in]
        IN  /\ last'.out = "ok"
            /\ last'.res = new
            /\ new.is_read = TRUE
            /\ DOMAIN new = AlertFields
            /\ \A f \in AlertFields \ {"is_read"} : new[f] = old[f]
            /\ DOMAIN alerts' = DOMAIN alerts
            /\ \A a \in DOMAIN alerts \ {last'.in} : alerts'[a] = alerts[a]
            /\ UNCHANGED <<users, flightSearches, priceRecords>>
      ]_vars

C12_Witness ==
    /\ last.op = "markAlertRead"
    /\ last.out = "ok"
    /\ alerts[last.in].is_read
    /\ alerts[last.in].old_price # Null
    /\ alerts[last.in].created_at < now
    /\ \E a \in DOMAIN alerts : a # last.in /\ ~alerts[a].is_read

(* C13: markAlertRead is idempotent: on an existing alert it succeeds with
   is_read = true whether or not the alert was read before, and a call on an
   alert that is already read leaves the stored alert as it was. *)
C13_MarkReadIdempotent ==
    [][(Called("markAlertRead") /\ last'.in \in DOMAIN alerts) =>
        /\ last'.out = "ok"
        /\ last'.res.is_read = TRUE
        /\ alerts'[last'.in].is_read = TRUE
        /\ alerts[last'.in].is_read =>
              /\ alerts' = alerts
              /\ last'.res = alerts[last'.in]
      ]_vars

C13_Witness ==
    /\ last.op = "markAlertRead"
    /\ last.out = "ok"
    /\ last.res.is_read
    /\ last.res = alerts[last.in]
    /\ \A a \in DOMAIN alerts : alerts[a].is_read
    /\ Cardinality(DOMAIN alerts) = MaxAlerts

(* C16: createAlert on an existing flight search inserts exactly one new
   alert with is_read = false and the supplied flight_search_id, alert_type,
   new_price, currency and message; when old_price is omitted or null the
   stored old_price is null. *)
C16_AlertCreatedUnread ==
    [][(Called("createAlert") /\ SearchExists(last'.in.flight_search_id)) =>
        LET in == last'.in
            row == last'.res
        IN  /\ last'.out = "ok"
            /\ row.id \notin DOMAIN alerts
            /\ DOMAIN alerts' = DOMAIN alerts \cup {row.id}
            /\ alerts'[row.id] = row
            /\ \A a \in DOMAIN alerts : alerts'[a] = alerts[a]
            /\ row.is_read = FALSE
            /\ \A f \in {"flight_search_id", "alert_type", "new_price", "currency",
                          "message"} : row[f] = in[f]
            /\ (~Has(in, "old_price") \/ in.old_price = Null) => row.old_price = Null
            /\ UNCHANGED <<users, flightSearches, priceRecords>>
      ]_vars

C16_Witness ==
    /\ last.op = "createAlert"
    /\ last.out = "ok"
    /\ Has(last.in, "old_price") /\ last.in.old_price = Null
    /\ alerts[last.res.id].old_price = Null
    /\ ~alerts[last.res.id].is_read
    /\ \E a \in DOMAIN alerts :
          a # last.res.id /\ alerts[a].is_read /\ alerts[a].old_price # Null

(* C17: createAlert with a flight_search_id that references no flight
   search fails with a referential violation and inserts no alert. *)
C17_AlertNeedsItsSearch ==
    [][(Called("createAlert") /\ ~SearchExists(last'.in.flight_search_id)) =>
        Failed("ReferentialViolation")
      ]_vars

C17_Witness ==
    /\ last.op = "createAlert"
    /\ last.out = "ReferentialViolation"
    /\ flightSearches # <<>>
    /\ alerts # <<>>
    /\ last.in.flight_search_id \notin DOMAIN flightSearches

(* C15: getAlerts returns exactly the alerts that satisfy every supplied
   filter, user_id meaning that the alert's flight search is owned by that
   user, ordered by created_at descending; with no filter it returns every
   alert.  Both query paths equal this reference filter. *)
C15_AlertsMatchEveryFilter ==
    [][Called("getAlerts") =>
        LET in == last'.in
            res == last'.res
            Matches(a) ==
                /\ Has(in, "user_id") =>
                      /\ alerts[a].flight_search_id \in DOMAIN flightSearches
                      /\ flightSearches[alerts[a].flight_search_id].user_id = in.user_id
                /\ Has(in, "flight_search_id") =>
                      alerts[a].flight_search_id = in.flight_search_id
                /\ Has(in, "is_read") => alerts[a].is_read = in.is_read
            want == {a \in DOMAIN alerts : Matches(a)}
        IN  /\ last'.out = "ok"
            /\ {res[i].id : i \in DOMAIN res} = want
            /\ Len(res) = Cardinality(want)
            /\ \A i \in DOMAIN res : res[i] = alerts[res[i].id]
            /\ \A i, j \in DOMAIN res : i < j => res[i].created_at >= res[j].created_at
            /\ DOMAIN in = {} => Len(res) = Cardinality(DOMAIN alerts)
            /\ UNCHANGED tables
      ]_vars

C15_Witness ==
    /\ last.op = "getAlerts"
    /\ DOMAIN last.in = {"user_id", "flight_search_id", "is_read"}
    /\ Len(last.res) = 1
    /\ Cardinality(DOMAIN alerts) = 2
    /\ Cardinality(DOMAIN users) = 2
    /\ \E a \in DOMAIN alerts :
          /\ a # last.res[1].id
          /\ alerts[a].flight_search_id = last.in.flight_search_id
          /\ alerts[a].is_read # last.in.is_read

(* C14: read is a terminal state of an alert: once is_read is true it stays
   true under every operation, no operation removes an alert, and is_read
   is the only field of a stored alert that any operation changes. *)
C14_ReadIsTerminal ==
    [][\A a \in DOMAIN alerts :
          /\ a \in DOMAIN alerts'
          /\ alerts[a].is_read => alerts'[a].is_read
          /\ \A f \in AlertFields \ {"is_read"} : alerts'[a][f] = alerts[a][f]
      ]_vars

C14_Witness ==
    /\ last.op = "markAlertRead"
    /\ last.out = "ok"
    /\ \E a \in DOMAIN alerts : alerts[a].is_read /\ alerts[a].created_at < now
    /\ priceRecords # <<>>
    /\ \E s \in DOMAIN flightSearches : ~flightSearches[s].is_active

(* C18: every failed write (createUser, createFlightSearch,
   updateFlightSearch, createPriceRecord, createAlert, markAlertRead ending
   in NotFound, InvalidTemporalRange, Inactive, ReferentialViolation or
   UniquenessViolation) leaves all four tables as they were. *)
C18_FailedWriteChangesNothing ==
    [][(/\ last'.op \in {"createUser", "createFlightSearch", "updateFlightSearch",
                          "createPriceRecord", "createAlert", "markAlertRead"}
        /\ last'.out # "ok") =>
        /\ last'.out \in {"NotFound", "InvalidTemporalRange", "Inactive",
                          "ReferentialViolation", "UniquenessViolation"}
        /\ users' = users
        /\ flightSearches' = flightSearches
        /\ priceRecords' = priceRecords
        /\ alerts' = alerts
      ]_vars

C18_Witness ==
    /\ last.op = "createFlightSearch"
    /\ last.out = "InvalidTemporalRange"
    /\ users # <<>>
    /\ flightSearches # <<>>
    /\ priceRecords # <<>>
    /\ alerts # <<>>

(* C20: collection reads never fail for an unknown id:
   getFlightSearchesByUser for a user_id with no user, getPriceHistory for a
   flight_search_id with no flight search, and getAlerts with a user_id or
   flight_search_id that matches nothing each return an empty collection. *)
C20_UnknownIdReadsEmpty ==
    [][/\ (Called("getFlightSearchesByUser") /\ last'.in.user_id \notin DOMAIN users)
          => (last'.out = "ok" /\ last'.res = {})
       /\ (Called("getPriceHistory") /\ ~SearchExists(last'.in.flight_search_id))
          => (last'.out = "ok" /\ last'.res = <<>>)
       /\ (/\ Called("getAlerts")
           /\ \/ Has(last'.in, "user_id") /\ last'.in.user_id \notin DOMAIN users
              \/ /\ Has(last'.in, "flight_search_id")
                 /\ ~SearchExists(last'.in.flight_search_id))
          => (last'.out = "ok" /\ last'.res = <<>>)
      ]_vars

C20_Witness ==
    /\ last.op = "getAlerts"
    /\ last.out = "ok"
    /\ last.res = <<>>
    /\ DOMAIN last.in = {"user_id"}
    /\ last.in.user_id \notin DOMAIN users
    /\ alerts # <<>>

(* C19: the exposed createPriceRecord (input validation plus handler)
   accepts a price of zero: for an existing active search it is not rejected
   and stores a price record whose price is 0. *)
C19_ZeroPriceAccepted ==
    [][(/\ Called("createPriceRecord")
        /\ last'.in.price = 0
        /\ SearchExists(last'.in.flight_search_id)
        /\ flightSearches[last'.in.flight_search_id].is_active)
       => /\ last'.out = "ok"
          /\ last'.res.price = 0
          /\ last'.res.id \in DOMAIN priceRecords'
          /\ priceRecords'[last'.res.id].price = 0
      ]_vars

(* C21: getFlightSearchesByUser returns exactly the stored searches whose
   user_id is the given one and, when is_active is supplied (true or false),
   whose is_active equals it; searches of other users never appear. *)
C21_SearchesOfTheUser ==
    [][Called("getFlightSearchesByUser") =>
        LET in == last'.in
        IN  /\ last'.out = "ok"
            /\ \A s \in DOMAIN flightSearches :
                  flightSearches[s] \in last'.res <=>
                      /\ flightSearches[s].user_id = in.user_id
                      /\ Has(in, "is_active") => flightSearches[s].is_active = in.is_active
            /\ \A row \in last'.res :
                  /\ row.id \in DOMAIN flightSearches
                  /\ flightSearches[row.id] = row
                  /\ row.user_id = in.user_id
            /\ UNCHANGED tables
      ]_vars

C21_Witness ==
    /\ last.op = "getFlightSearchesByUser"
    /\ Has(last.in, "is_active") /\ ~last.in.is_active
    /\ Cardinality(last.res) = 1
    /\ \E s \in DOMAIN flightSearches :
          /\ flightSearches[s].user_id # last.in.user_id
          /\ ~flightSearches[s].is_active

(* C22: a successful createFlightSearch inserts exactly one flight search,
   with is_active = true, the supplied user_id, cities and departure_date, a
   return_date equal to the supplied one or null when it is omitted or null,
   and an id distinct from every existing flight search id. *)
C22_SearchCreatedActive ==
    [][(Called("createFlightSearch") /\ last'.out = "ok") =>
        LET in == last'.in
            row == last'.res
        IN  /\ row.id \notin DOMAIN flightSearches
            /\ DOMAIN flightSearches' = DOMAIN flightSearches \cup {row.id}
            /\ flightSearches'[row.id] = row
            /\ \A s \in DOMAIN flightSearches : flightSearches'[s] = flightSearches[s]
            /\ row.is_active = TRUE
            /\ \A f \in {"user_id", "origin_city", "destination_city", "departure_date"} :
                  row[f] = in[f]
            /\ row.return_date = IF Has(in, "return_date") THEN in.return_date ELSE Null
            /\ UNCHANGED <<users, priceRecords, alerts>>
      ]_vars

C22_Witness ==
    /\ last.op = "createFlightSearch"
    /\ last.out = "ok"
    /\ last.res.return_date # Null
    /\ last.res.id = 2
    /\ flightSearches[1].return_date = Null
    /\ ~flightSearches[1].is_active
    /\ flightSearches[1].user_id = last.res.user_id

(* C23: user emails are unique: createUser with the email of an existing
   user fails with UniquenessViolation and adds no user, so no two stored
   users share an email. *)
C23_EmailsUnique ==
    [][/\ (Called("createUser")
           /\ \E u \in DOMAIN users : users[u].email = last'.in.email)
          => Failed("UniquenessViolation")
       /\ \A u, v \in DOMAIN users' :
             u # v => users'[u].email # users'[v].email
      ]_vars

C23_Witness ==
    /\ last.op = "createUser"
    /\ last.out = "UniquenessViolation"
    /\ Cardinality(DOMAIN users) = 2
    /\ users[2].email = last.in.email

(* C24: the price ledger is append-only: a price record once inserted is
   never modified or removed, so the records of a search only grow and each
   record's price, currency, provider and recorded_at never change. *)
C24_LedgerAppendOnly ==
    [][/\ \A r \in DOMAIN priceRecords :
             /\ r \in DOMAIN priceRecords'
             /\ priceRecords'[r] = priceRecords[r]
       /\ \A id \in SearchIds :
             {r \in DOMAIN priceRecords : priceRecords[r].flight_search_id = id}
                \subseteq
             {r \in DOMAIN priceRecords' : priceRecords'[r].flight_search_id = id}
      ]_vars

C24_Witness ==
    /\ last.op = "createPriceRecord"
    /\ last.out = "ok"
    /\ Cardinality(DOMAIN priceRecords) = MaxPrices
    /\ priceRecords[1].recorded_at < priceRecords[2].recorded_at
    /\ priceRecords[1].flight_search_id = last.res.flight_search_id
    /\ priceRecords[2].flight_search_id # last.res.flight_search_id
    /\ ~flightSearches[priceRecords[2].flight_search_id].is_active

(* C29: createAlert stores old_price exactly as supplied for every supplied
   non-null value, old_price = 0 included; the stored old_price is null only
   when the input old_price was omitted or null. *)
C29_OldPriceStoredAsSupplied ==
    [][(Called("createAlert") /\ last'.out = "ok") =>
        LET in == last'.in
            stored == alerts'[last'.res.id].old_price
        IN  /\ (Has(in, "old_price") /\ in.old_price # Null) => stored = in.old_price
            /\ stored = Null => (~Has(in, "old_price") \/ in.old_price = Null)
      ]_vars

(* C25: ownership is referentially closed: every flight search references
   an existing user and every price record and alert references an existing
   flight search; removing a flight search removes all of its price records
   and alerts, and removing a user removes all of that user's flight
   searches and their children.  Nothing else is removed. *)
C25_OwnershipClosed ==
    [][LET goneSearches == DOMAIN flightSearches \ DOMAIN flightSearches'
           Owned(table, ids) == {r \in DOMAIN table : table[r].flight_search_id \in ids}
       IN  /\ \A s \in DOMAIN flightSearches' :
                 flightSearches'[s].user_id \in DOMAIN users'
           /\ \A r \in DOMAIN priceRecords' :
                 priceRecords'[r].flight_search_id \in DOMAIN flightSearches'
           /\ \A a \in DOMAIN alerts' :
                 alerts'[a].flight_search_id \in DOMAIN flightSearches'
           /\ Called("deleteFromFlightSearches") =>
                 /\ goneSearches = DOMAIN flightSearches \cap {last'.in}
                 /\ users' = users
           /\ Called("deleteFromUsers") =>
                 /\ DOMAIN users' = DOMAIN users \ {last'.in}
                 /\ goneSearches =
                       {s \in DOMAIN flightSearches : flightSearches[s].user_id = last'.in}
           /\ (Called("deleteFromFlightSearches") \/ Called("deleteFromUsers")) =>
                 /\ DOMAIN priceRecords \ DOMAIN priceRecords'
                       = Owned(priceRecords, goneSearches)
                 /\ DOMAIN alerts \ DOMAIN alerts' = Owned(alerts, goneSearches)
                 /\ \A s \in DOMAIN flightSearches' : flightSearches'[s] = flightSearches[s]
                 /\ \A r \in DOMAIN priceRecords' : priceRecords'[r] = priceRecords[r]
                 /\ \A a \in DOMAIN alerts' : alerts'[a] = alerts[a]
      ]_vars

C25_Witness ==
    /\ last.op = "deleteFromUsers"
    /\ last.res = 1
    /\ DOMAIN users = {2}
    /\ DOMAIN flightSearches = {2}
    /\ flightSearches[2].user_id = 2
    /\ DOMAIN priceRecords = {2}
    /\ DOMAIN alerts = {1}

(* The step in which call c, an invocation of `op`, sends its last
   statement and returns *)
Finishes(c, op) ==
    /\ c \in DOMAIN calls
    /\ calls[c].op = op
    /\ c \notin DOMAIN calls'

(* C26: the active check of createPriceRecord is read-then-act: when a
   concurrent updateFlightSearch sets is_active = false after the call has
   read the search as active and before it inserts, the insert still
   succeeds and the price record is appended to a search that is inactive
   at insert time. *)
C26_InsertAfterDeactivation ==
    [][\A c \in CallIds :
          (/\ Finishes(c, "createPriceRecord")
           /\ ~flightSearches[calls[c].input.flight_search_id].is_active)
          => /\ last' = Reply("createPriceRecord", calls[c].input, "ok", last'.res)
             /\ last'.res.id \notin DOMAIN priceRecords
             /\ DOMAIN priceRecords' = DOMAIN priceRecords \cup {last'.res.id}
             /\ priceRecords'[last'.res.id] = last'.res
             /\ last'.res.flight_search_id = calls[c].input.flight_search_id
             /\ ~flightSearches'[last'.res.flight_search_id].is_active
      ]_vars

C26_Witness ==
    /\ last.op = "createPriceRecord"
    /\ last.out = "ok"
    /\ last.res.id \in DOMAIN priceRecords
    /\ ~flightSearches[last.res.flight_search_id].is_active
    /\ flightSearches[last.res.flight_search_id].updated_at < last.res.recorded_at

(* C27: concurrent updateFlightSearch calls on one search are
   last-write-wins per supplied field: each applied write sets the fields it
   supplies and leaves the others as the writes applied before it left
   them, and the stored updated_at is the timestamp carried by the write
   applied last. *)
C27_LastWriteWins ==
    [][\A c \in CallIds :
          Finishes(c, "updateFlightSearch") =>
            LET in == calls[c].input
                old == flightSearches[in.id]
                new == flightSearches'[in.id]
            IN  /\ \A f \in UpdatableFields :
                      new[f] = IF Has(in, f) THEN in[f] ELSE old[f]
                /\ new.updated_at = calls[c].updateData.updated_at
                /\ \A f \in {"id", "user_id", "created_at"} : new[f] = old[f]
                /\ last' = Reply("updateFlightSearch", in, "ok", new)
      ]_vars

C27_Witness ==
    /\ last.op = "updateFlightSearch"
    /\ last.out = "ok"
    /\ DOMAIN last.in = {"id", "is_active"}
    /\ flightSearches[last.in.id] = last.res
    /\ last.res.origin_city = "LON"
    /\ ~last.res.is_active
    /\ \E c \in DOMAIN calls :
          /\ calls[c].op = "updateFlightSearch"
          /\ calls[c].input.id = last.in.id
          /\ DOMAIN calls[c].input = {"id", "is_active"}
          /\ calls[c].input.is_active
          /\ calls[c].updateData.updated_at < last.res.updated_at

(* C28: the stored updated_at of a flight search never decreases, in every
   interleaving of concurrent updateFlightSearch calls on it. *)
C28_UpdatedAtNeverDecreases ==
    [][\A s \in DOMAIN flightSearches :
          flightSearches'[s].updated_at >= flightSearches[s].updated_at
      ]_vars

(* C30: in the client App, after any sequence of loadAlerts completions and
   handleAlertRead invocations (two of them in flight for the same alert, or
   one for an alert already read locally, included), unreadAlertCount is the
   number of alerts of the local list whose is_read is false. *)
C30_UnreadCountMatchesList ==
    app.unreadAlertCount = Cardinality({i \in DOMAIN app.alerts : ~app.alerts[i].is_read})

====
